---------------------------- MODULE Spec2Model ----------------------------
(***************************************************************************)
(* Fluento-backend: the practice API.                                      *)
(*                                                                         *)
(* User progression.  The state is the Firestore "users" collection, the   *)
(* write-only "practice_sessions" collection, the wall clock read by       *)
(* datetime.now, whether a Firestore client is available (get_db), and the *)
(* response to the last request handled.  Every route of                   *)
(* app/routers/users.py that writes is one action; it runs the database    *)
(* helpers of app/database.py it calls, from the first read to the last    *)
(* write, in one step.  SpecRace splits update_user_stats into its two     *)
(* requests to the store.                                                  *)
(*                                                                         *)
(* Of a user document the model keeps "stats" and "badges", the two maps   *)
(* the helpers read back.  email, display_name, created_at and updated_at  *)
(* are written by create_user and update_user_stats and read by none of    *)
(* them; the documents of "practice_sessions" are never read either, so    *)
(* that collection is kept as the number of documents added.               *)
(*                                                                         *)
(* Time is counted in ticks; a calendar date is TicksPerDay ticks long.    *)
(* clock is the latest reading of datetime.now() or date.today() that      *)
(* reached the state; the next reading is any tick not before it.  A       *)
(* handler runs within one tick, so every reading it makes is the same.    *)
(* None is written NoDate for a date.                                      *)
(*                                                                         *)
(* Words.  The state is the entries, the word pools and the daily cache of *)
(* the WordService singleton, and the generator that the functions of      *)
(* module random share; served records what get_daily_words returned.      *)
(* SpecWords runs get_daily_words as the event loop does, SpecWordThreads  *)
(* statement by statement.                                                 *)
(*                                                                         *)
(* Scoring.  The functions of ScoringService are applied to pairs of       *)
(* texts; a text is a sequence of characters.                              *)
(***************************************************************************)
EXTENDS Integers, Sequences, FiniteSets, TLC

VARIABLES
    clock,              \* the latest datetime.now(timezone.utc) read, in ticks
    db,                 \* TRUE: get_db() returns a client; FALSE: mock mode (None)
    store,              \* users collection: uid -> document snapshot
    practice_sessions,  \* number of documents added to "practice_sessions"
    response,           \* the answer to the last request handled
    self_words,         \* WordService.words: every entry loaded
    words_by_difficulty, \* WordService.words_by_difficulty: the three pools
    daily_cache,        \* WordService._daily_cache
    served,             \* every <<date, list>> get_daily_words has returned
    random_state,       \* the state of the generator that the functions of module
                        \* random share (0 where a specification never draws from it)
    calls               \* the calls in flight: caller -> position and locals

wordVars == <<self_words, words_by_difficulty, daily_cache, served, random_state>>

vars == <<clock, db, store, practice_sessions, response, wordVars, calls>>

----------------------------------------------------------------------------
(* Bounds of the model *)

TicksPerDay == 2        \* ticks per calendar date
MaxSessions == 5        \* sessions of a user while no practice session is logged
MaxLoggedSessions == 1  \* sessions of a user once practice sessions are logged
MaxLogged == 2          \* documents in practice_sessions

MaxTotalXp == 100 * MaxSessions

(* Inputs *)

UIDs == {"u1"}
Modes == {"pronunciation", "spelling"}
OtherModes == {"listening"}
XpInputs == {100}                              \* within the schema's 0..100
XpRejected == {101}                            \* outside it
ScoreInputs == {-10, 100, 150}                 \* log-session takes any int

\* the clock readings explored: two on one date, the next date less than a
\* day later, the next more than a day later, the next date, and one after a gap
Instants == {0, 1, 2, 5, 6, 9}

NoDate == -1
NoDoc == [exists |-> FALSE]

----------------------------------------------------------------------------
(* Dictionaries *)

Get(d, k, default) == IF k \in DOMAIN d THEN d[k] ELSE default

Put(d, k, v) == [f \in (DOMAIN d) \cup {k} |-> IF f = k THEN v ELSE d[f]]

Max(a, b) == IF a >= b THEN a ELSE b

Min(a, b) == IF a <= b THEN a ELSE b

(* datetime.date(): the calendar date of a timestamp *)
DateOf(t) == t \div TicksPerDay

----------------------------------------------------------------------------
(* create_user: the document a new user starts with *)

InitialStats ==
    [ total_xp |-> 0,
      level |-> 1,
      streak |-> 0,
      last_practice_date |-> NoDate,
      pronunciation_sessions |-> 0,
      spelling_sessions |-> 0,
      best_pronunciation_score |-> 0,
      best_spelling_score |-> 0 ]

NewUserDoc ==
    [ exists |-> TRUE,
      stats |-> InitialStats,
      badges |-> << >> ]

(* get_user: the stored document, or None (NoDoc) in mock mode or when absent *)
get_user(st, hasDb, uid) ==
    IF ~hasDb THEN NoDoc
    ELSE IF st[uid].exists THEN st[uid] ELSE NoDoc

(* create_user: in mock mode nothing is stored and a stub dict is returned *)
create_user(st, hasDb, uid) ==
    IF ~hasDb
    THEN [ store |-> st, user |-> [id |-> uid] ]
    ELSE LET user_data == NewUserDoc
         IN  [ store |-> [st EXCEPT ![uid] = user_data],
               user  |-> [id |-> uid, data |-> user_data] ]

(* the user created on every sync *)
get_or_create_user_Recreates(st, hasDb, uid) == create_user(st, hasDb, uid)

get_or_create_user(st, hasDb, uid) ==
    LET user == get_user(st, hasDb, uid)
    IN  IF user.exists
        THEN [store |-> st, user |-> [id |-> uid, data |-> user]]
        ELSE create_user(st, hasDb, uid)

----------------------------------------------------------------------------
(* check_for_badges *)

TotalSessions(stats) ==
    Get(stats, "pronunciation_sessions", 0) + Get(stats, "spelling_sessions", 0)

BadgeConditions(stats) ==
    LET total_sessions == TotalSessions(stats)
        Rule(id, condition, name, description) ==
            [id |-> id, condition |-> condition, name |-> name,
             description |-> description]
    IN
    << Rule("first_session", total_sessions >= 1,
            "First Session", "Completed your first practice!"),
       Rule("getting_started", Get(stats, "total_xp", 0) >= 10,
            "Getting Started", "Earned 10 XP"),
       Rule("first_steps", Get(stats, "total_xp", 0) >= 100,
            "First Steps", "Earned 100 XP"),
       Rule("xp_500", Get(stats, "total_xp", 0) >= 500,
            "XP Hunter", "Earned 500 XP"),
       Rule("five_sessions", total_sessions >= 5,
            "Dedicated", "Completed 5 sessions"),
       Rule("ten_sessions", total_sessions >= 10,
            "On Fire", "Completed 10 sessions"),
       Rule("century", total_sessions >= 100,
            "Century", "Completed 100 sessions"),
       Rule("streak_3", Get(stats, "streak", 0) >= 3,
            "3 Day Streak", "3 day practice streak"),
       Rule("streak_week", Get(stats, "streak", 0) >= 7,
            "Week Warrior", "7 day streak"),
       Rule("streak_month", Get(stats, "streak", 0) >= 30,
            "Monthly Master", "30 day streak"),
       Rule("level_2", Get(stats, "level", 1) >= 2,
            "Level 2", "Reached level 2"),
       Rule("level_5", Get(stats, "level", 1) >= 5,
            "Rising Star", "Reached level 5"),
       Rule("level_10", Get(stats, "level", 1) >= 10,
            "Expert", "Reached level 10"),
       Rule("pronunciation_first", Get(stats, "pronunciation_sessions", 0) >= 1,
            "Voice Activated", "First pronunciation practice"),
       Rule("spelling_first", Get(stats, "spelling_sessions", 0) >= 1,
            "Wordsmith", "First spelling practice"),
       Rule("perfect_pronunciation", Get(stats, "best_pronunciation_score", 0) >= 100,
            "Perfect Pronunciation", "100% pronunciation score"),
       Rule("perfect_spelling", Get(stats, "best_spelling_score", 0) >= 100,
            "Spelling Bee", "100% spelling score") >>

(* the membership test dropped *)
HasBadge_Never(badges, badge_id) == FALSE

(* only the badge appended last is looked at *)
HasBadge_LastOnly(badges, badge_id) ==
    badges # << >> /\ badges[Len(badges)].id = badge_id

(* badge_id in [b.get("id") for b in badges] *)
HasBadge(badges, badge_id) ==
    badge_id \in {badges[i].id : i \in 1..Len(badges)}

(* the loop over badge_conditions, from rule i on *)
RECURSIVE AppendEarned(_, _, _, _)
AppendEarned(conds, i, badges, now) ==
    IF i > Len(conds) THEN badges
    ELSE LET c == conds[i]
         IN  IF c.condition /\ ~HasBadge(badges, c.id)
             THEN AppendEarned(conds, i + 1,
                      Append(badges, [ id |-> c.id,
                                       name |-> c.name,
                                       description |-> c.description,
                                       earned_at |-> now ]),
                      now)
             ELSE AppendEarned(conds, i + 1, badges, now)

(* the badge list rebuilt from the rules instead of appended to *)
check_for_badges_Rebuilt(stats, current_badges, now) ==
    AppendEarned(BadgeConditions(stats), 1, << >>, now)

check_for_badges(stats, current_badges, now) ==
    AppendEarned(BadgeConditions(stats), 1, current_badges, now)

----------------------------------------------------------------------------
(* update_user_stats *)

(* the level rounded to the nearest 500 XP instead of floored *)
Level_Rounded(total_xp) == ((total_xp + 250) \div 500) + 1

Level(total_xp) == (total_xp \div 500) + 1

(* the difference taken in elapsed days, (now - last_practice).days *)
NewStreak_ElapsedDays(stats, now) ==
    LET last_practice  == Get(stats, "last_practice_date", NoDate)
        current_streak == Get(stats, "streak", 0)
    IN  IF last_practice # NoDate
        THEN LET days_diff == (now - last_practice) \div TicksPerDay
             IN  IF days_diff = 0 THEN current_streak
                 ELSE IF days_diff = 1 THEN current_streak + 1
                 ELSE 1
        ELSE 1

(* every session lengthens the streak, the same day included *)
NewStreak_SameDayCounts(stats, now) ==
    LET last_practice  == Get(stats, "last_practice_date", NoDate)
        current_streak == Get(stats, "streak", 0)
    IN  IF last_practice # NoDate
        THEN LET days_diff == DateOf(now) - DateOf(last_practice)
             IN  IF days_diff = 0 THEN current_streak + 1
                 ELSE IF days_diff = 1 THEN current_streak + 1
                 ELSE 1
        ELSE 1

(* a date not after the last practice date counts as the same day *)
NewStreak_EarlierIsSameDay(stats, now) ==
    LET last_practice  == Get(stats, "last_practice_date", NoDate)
        current_streak == Get(stats, "streak", 0)
    IN  IF last_practice # NoDate
        THEN LET days_diff == DateOf(now) - DateOf(last_practice)
             IN  IF days_diff <= 0 THEN current_streak
                 ELSE IF days_diff = 1 THEN current_streak + 1
                 ELSE 1
        ELSE 1

(* a broken streak starts again from 0 *)
NewStreak_BrokenIsZero(stats, now) ==
    LET last_practice  == Get(stats, "last_practice_date", NoDate)
        current_streak == Get(stats, "streak", 0)
    IN  IF last_practice # NoDate
        THEN LET days_diff == DateOf(now) - DateOf(last_practice)
             IN  IF days_diff = 0 THEN current_streak
                 ELSE IF days_diff = 1 THEN current_streak + 1
                 ELSE 0
        ELSE 1

NewStreak(stats, now) ==
    LET last_practice  == Get(stats, "last_practice_date", NoDate)
        current_streak == Get(stats, "streak", 0)
    IN  IF last_practice # NoDate
        THEN LET days_diff == DateOf(now) - DateOf(last_practice)
             IN  IF days_diff = 0 THEN current_streak
                 ELSE IF days_diff = 1 THEN current_streak + 1
                 ELSE 1
        ELSE 1

(* the two counters swapped *)
CountSession_Swapped(stats, mode) ==
    IF mode = "pronunciation"
    THEN Put(stats, "spelling_sessions",
             Get(stats, "spelling_sessions", 0) + 1)
    ELSE IF mode = "spelling"
    THEN Put(stats, "pronunciation_sessions",
             Get(stats, "pronunciation_sessions", 0) + 1)
    ELSE stats

CountSession(stats, mode) ==
    IF mode = "pronunciation"
    THEN Put(stats, "pronunciation_sessions",
             Get(stats, "pronunciation_sessions", 0) + 1)
    ELSE IF mode = "spelling"
    THEN Put(stats, "spelling_sessions",
             Get(stats, "spelling_sessions", 0) + 1)
    ELSE stats

(* the total overwritten instead of added to *)
NewTotalXp_Overwritten(stats, xp_earned) == xp_earned

NewTotalXp(stats, xp_earned) == Get(stats, "total_xp", 0) + xp_earned

SessionStats(stats, xp_earned, mode, now) ==
    LET new_total_xp == NewTotalXp(stats, xp_earned)
        new_level    == Level(new_total_xp)
        new_streak   == NewStreak(stats, now)
        counted      == CountSession(stats, mode)
    IN  Put(Put(Put(Put(counted,
            "total_xp", new_total_xp),
            "level", new_level),
            "streak", new_streak),
            "last_practice_date", now)

(* a missing record is created and the session applied to it *)
update_user_stats_Upsert(st, hasDb, uid, xp_earned, mode, now) ==
    IF ~hasDb
    THEN [store |-> st, result |-> [error |-> "Database not available"]]
    ELSE LET user_data  == IF st[uid].exists THEN st[uid] ELSE NewUserDoc
             stats      == SessionStats(user_data.stats, xp_earned, mode, now)
             new_badges == check_for_badges(stats, user_data.badges, now)
         IN  [ store  |-> [st EXCEPT ![uid] = [exists |-> TRUE, stats |-> stats,
                                               badges |-> new_badges]],
               result |-> [ total_xp  |-> stats.total_xp,
                            level     |-> stats.level,
                            streak    |-> stats.streak,
                            badges    |-> new_badges,
                            xp_earned |-> xp_earned ] ]

update_user_stats(st, hasDb, uid, xp_earned, mode, now) ==
    IF ~hasDb
    THEN [store |-> st, result |-> [error |-> "Database not available"]]
    ELSE IF ~st[uid].exists
    THEN [store |-> st, result |-> [error |-> "User not found"]]
    ELSE LET user_data  == st[uid]
             stats      == SessionStats(user_data.stats, xp_earned, mode, now)
             new_badges == check_for_badges(stats, user_data.badges, now)
         IN  [ store  |-> [st EXCEPT ![uid].stats = stats,
                                     ![uid].badges = new_badges],
               result |-> [ total_xp  |-> stats.total_xp,
                            level     |-> stats.level,
                            streak    |-> stats.streak,
                            badges    |-> new_badges,
                            xp_earned |-> xp_earned ] ]

----------------------------------------------------------------------------
(* update_best_score *)

BestField(mode) == "best_" \o mode \o "_score"

(* the score stored without the comparison *)
BestStats_Unconditional(stats, mode, score) == Put(stats, BestField(mode), score)

BestStats(stats, mode, score) ==
    LET field        == BestField(mode)
        current_best == Get(stats, field, 0)
    IN  IF score > current_best THEN Put(stats, field, score) ELSE stats

(* the best score stored together with a session counted *)
update_best_score_CountsSession(st, hasDb, uid, mode, score) ==
    IF ~hasDb THEN st
    ELSE IF ~st[uid].exists THEN st
    ELSE [st EXCEPT ![uid].stats =
             CountSession(BestStats(st[uid].stats, mode, score), mode)]

update_best_score(st, hasDb, uid, mode, score) ==
    IF ~hasDb THEN st
    ELSE IF ~st[uid].exists THEN st
    ELSE [st EXCEPT ![uid].stats = BestStats(st[uid].stats, mode, score)]

(* log_practice_session: one more document, unless in mock mode *)
log_practice_session(n, hasDb) == IF ~hasDb THEN n ELSE n + 1

----------------------------------------------------------------------------
(* app/services/word_service.py *)

MaxPool == 3            \* words of one difficulty in a words file

Difficulties == {"easy", "medium", "hard"}

(* _create_sample_words: the dataset used when no words file is found.  Of an
   entry the model keeps the keys get_daily_words reads. *)
sample_words ==
    << [word |-> "cat", difficulty |-> "Easy",
        definitions |-> <<"a small domesticated carnivorous mammal">>],
       [word |-> "dog", difficulty |-> "Easy",
        definitions |-> <<"a domesticated carnivorous mammal">>],
       [word |-> "happy", difficulty |-> "Easy",
        definitions |-> <<"feeling or showing pleasure">>],
       [word |-> "beautiful", difficulty |-> "Medium",
        definitions |-> <<"pleasing the senses or mind aesthetically">>],
       [word |-> "eloquent", difficulty |-> "Hard",
        definitions |-> <<"fluent or persuasive in speaking or writing">>],
       [word |-> "ephemeral", difficulty |-> "Hard",
        definitions |-> <<"lasting for a very short time">>],
       [word |-> "ubiquitous", difficulty |-> "Hard",
        definitions |-> <<"present, appearing, or found everywhere">>],
       [word |-> "run", difficulty |-> "Easy",
        definitions |-> <<"move at a speed faster than a walk">>],
       [word |-> "comprehend", difficulty |-> "Medium",
        definitions |-> <<"grasp mentally; understand">>],
       [word |-> "ameliorate", difficulty |-> "Hard",
        definitions |-> <<"make something bad or unsatisfactory better">>] >>

(* entries a words file can hold besides: no "definitions", no "difficulty",
   an empty definition list, a difficulty other than the three indexed *)
FileEntries ==
    sample_words \o
    << [word |-> "gather", difficulty |-> "Medium"],
       [word |-> "journey", definitions |-> <<"an act of travelling">>],
       [word |-> "tree", difficulty |-> "EASY", definitions |-> << >>],
       [word |-> "zeitgeist", difficulty |-> "Expert",
        definitions |-> <<"the spirit of an age">>] >>

(* str.lower() on the difficulty strings of the datasets *)
lower_difficulty(d) ==
    CASE d \in {"Easy", "EASY"} -> "easy"
      [] d = "Medium" -> "medium"
      [] d = "Hard" -> "hard"
      [] d = "Expert" -> "expert"
      [] OTHER -> d

(* word.get("difficulty", "Medium").lower() *)
IndexKey(word) == lower_difficulty(Get(word, "difficulty", "Medium"))

(* load_words: "for word in self.words: ... append(word)" *)
IndexByDifficulty(words) ==
    [d \in Difficulties |-> SelectSeq(words, LAMBDA w : IndexKey(w) = d)]

NoFile == [exists |-> FALSE]

(* load_words: "self.words = json.load(f)", or the sample words *)
read_words(words_file) ==
    IF ~words_file.exists THEN sample_words ELSE words_file.words

load_words(words_file) ==
    IF ~words_file.exists
    THEN IndexByDifficulty(sample_words)
    ELSE IndexByDifficulty(words_file.words)

RECURSIVE Pick(_, _, _)
Pick(words, i, keep) ==
    IF i > Len(words) THEN << >>
    ELSE (IF i \in keep THEN <<words[i]>> ELSE << >>) \o Pick(words, i + 1, keep)

(* the words file holding the first quota[d] entries of FileEntries of each
   indexed difficulty d, and the entries of the other difficulties *)
FileWith(quota) ==
    LET Rank(i) == Cardinality({j \in 1..i : IndexKey(FileEntries[j]) =
                                             IndexKey(FileEntries[i])})
        keep == {i \in 1..Len(FileEntries) :
                    IndexKey(FileEntries[i]) \in Difficulties
                        => Rank(i) <= quota[IndexKey(FileEntries[i])]}
    IN  [exists |-> TRUE, words |-> Pick(FileEntries, 1, keep)]

WordsFiles == {NoFile} \cup {FileWith(q) : q \in [Difficulties -> 0..MaxPool]}

(* date(2024, 1, 1).toordinal(): the ordinal of the model's day 0 *)
Day0Ordinal == 738886

(* a generator seeded from what the process has done so far *)
toordinal_PerCall(today) == Day0Ordinal + today + Cardinality(served)

(* date.toordinal() *)
toordinal(today) == Day0Ordinal + today

(* random.Random(seed): a deterministic generator; its state after seeding and
   after each draw is a function of the seed alone *)
RngModulus == 31
RngMultiplier == 7
RngIncrement == 3

(* a generator that starts from the state of the shared one *)
Random_Shared(seed) == (seed + random_state) % RngModulus

Random(seed) == seed % RngModulus

NextRng(s) == (RngMultiplier * s + RngIncrement) % RngModulus

(* Random._randbelow(n): a number in 0..n-1 and the generator after the draw *)
randbelow(s, n) == [value |-> NextRng(s) % n, rng |-> NextRng(s)]

(* two draws that do not take the first item out of the population *)
sample_WithReplacement(population, s) ==
    LET n  == Len(population)
        d1 == randbelow(s, n)
        d2 == randbelow(d1.rng, n)
    IN  [items |-> <<population[d1.value + 1], population[d2.value + 1]>>,
         rng |-> d2.rng]

(* rng.sample(population, 2): the j-th remaining item is drawn, and the last
   remaining item takes its place *)
sample(population, s) ==
    LET n    == Len(population)
        d1   == randbelow(s, n)
        pool == [population EXCEPT ![d1.value + 1] = population[n]]
        d2   == randbelow(d1.rng, n - 1)
    IN  [items |-> <<population[d1.value + 1], pool[d2.value + 1]>>,
         rng |-> d2.rng]

(* rng.choice(seq) *)
choice(seq, s) ==
    LET d == randbelow(s, Len(seq))
    IN  [items |-> <<seq[d.value + 1]>>, rng |-> d.rng]

(* a pool below its quota contributes nothing *)
SelectTwo_Strict(words, s) ==
    IF Len(words) >= 2 THEN sample(words, s) ELSE [items |-> << >>, rng |-> s]

(* "if len(easy_words) >= 2: rng.sample(easy_words, 2)
    else: easy_words[:2] if easy_words else []" *)
SelectTwo(words, s) ==
    IF Len(words) >= 2
    THEN sample(words, s)
    ELSE [items |-> IF words # << >> THEN SubSeq(words, 1, Len(words)) ELSE << >>,
          rng |-> s]

(* "if hard_words: [rng.choice(hard_words)] else: []" *)
SelectOne(words, s) ==
    IF words # << >> THEN choice(words, s) ELSE [items |-> << >>, rng |-> s]

(* the entry of the response for one word *)
FormatWord(word_data) ==
    [ word       |-> Get(word_data, "word", ""),
      meaning    |-> IF Get(word_data, "definitions", << >>) # << >>
                     THEN Get(word_data, "definitions", <<"">>)[1]
                     ELSE "",
      difficulty |-> Get(word_data, "difficulty", "Medium") ]

(* the part of get_daily_words that samples and formats *)
SelectDailyWords(pools, today) ==
    LET rng             == Random(toordinal(today))
        selected_easy   == SelectTwo(pools["easy"], rng)
        selected_medium == SelectTwo(pools["medium"], selected_easy.rng)
        selected_hard   == SelectOne(pools["hard"], selected_medium.rng)
        daily_words     == selected_easy.items \o selected_medium.items
                               \o selected_hard.items
    IN  [i \in 1..Len(daily_words) |-> FormatWord(daily_words[i])]

EmptyCache == [date |-> NoDate, words |-> << >>]

(* WordService.get_daily_words: the cache after the call, the list returned,
   and whether the call sampled *)
get_daily_words(cache, pools, today) ==
    IF cache.date = today /\ cache.words # << >>
    THEN [cache |-> cache, words |-> cache.words, sampled |-> FALSE]
    ELSE LET formatted_words == SelectDailyWords(pools, today)
         IN  [ cache   |-> [date |-> today, words |-> formatted_words],
               words   |-> formatted_words,
               sampled |-> TRUE ]

(* the dict get_random_word returns for an entry; of the keys the model does
   not keep in an entry, the defaults *)
RandomWord(word_data) ==
    [ word       |-> Get(word_data, "word", ""),
      pos        |-> Get(word_data, "pos", ""),
      difficulty |-> Get(word_data, "difficulty", "Medium"),
      definition |-> IF Get(word_data, "definitions", << >>) # << >>
                     THEN Get(word_data, "definitions", <<"">>)[1]
                     ELSE "",
      examples   |-> Get(word_data, "examples", << >>),
      synonyms   |-> Get(word_data, "synonyms", << >>) ]

NoWord == [found |-> FALSE]

(* WordService.get_random_word with a difficulty given: the word returned, or
   None (NoWord), and the shared generator after random.choice *)
get_random_word(all_words, pools, difficulty, s) ==
    LET d         == lower_difficulty(difficulty)
        of_d      == IF d \in DOMAIN pools THEN pools[d] ELSE << >>
        candidates == IF of_d # << >> THEN of_d ELSE all_words
    IN  IF candidates = << >>
        THEN [word |-> NoWord, rng |-> s]
        ELSE LET c == choice(candidates, s)
             IN  [ word |-> [found |-> TRUE, data |-> RandomWord(c.items[1])],
                   rng  |-> c.rng ]

(* the callers whose calls can be in flight together *)
Callers == {"c1", "c2"}

NoCalls == [c \in Callers |-> [pc |-> "idle"]]

----------------------------------------------------------------------------
(* The routes of app/routers/users.py *)

(* UpdateStatsRequest: xp_earned: int = Field(ge=0, le=100) *)
ValidXp(xp_earned) == xp_earned >= 0 /\ xp_earned <= 100

(* UpdateStatsRequest: mode: str = Field(pattern="^(pronunciation|spelling)$") *)
ValidMode(mode) == mode \in {"pronunciation", "spelling"}

(* the model's bound on the sessions and XP of one user *)
SessionBound == IF practice_sessions = 0 THEN MaxSessions ELSE MaxLoggedSessions

WithinBounds(uid, xp_earned) ==
    store[uid].exists =>
        /\ TotalSessions(store[uid].stats) < SessionBound
        /\ store[uid].stats.total_xp + xp_earned <= MaxTotalXp

Init ==
    /\ clock = 0
    /\ db \in BOOLEAN
    /\ store = [u \in UIDs |-> NoDoc]
    /\ practice_sessions = 0
    /\ response = [op |-> "start"]
    /\ self_words = read_words(NoFile)
    /\ words_by_difficulty = load_words(NoFile)
    /\ daily_cache = EmptyCache
    /\ served = {}
    /\ random_state = 0
    /\ calls = NoCalls

(* POST /user/sync *)
sync_user(uid) ==
    LET r == get_or_create_user(store, db, uid)
    IN  /\ store' = r.store
        /\ response' = IF DOMAIN r.user = {}
                       THEN [op |-> "sync_user", uid |-> uid, status |-> 500,
                             detail |-> "Failed to sync user"]
                       ELSE [op |-> "sync_user", uid |-> uid, status |-> 200,
                             detail |-> "User synced successfully",
                             user_id |-> r.user.id]
        /\ UNCHANGED <<clock, db, practice_sessions, wordVars, calls>>

(* the answer of POST /user/stats to the result of update_user_stats *)
StatsResponse(uid, result) ==
    IF "error" \in DOMAIN result
    THEN [op |-> "update_stats", uid |-> uid, status |-> 404, detail |-> result.error]
    ELSE [ op        |-> "update_stats",
           uid       |-> uid,
           status    |-> 200,
           total_xp  |-> result.total_xp,
           level     |-> result.level,
           streak    |-> result.streak,
           xp_earned |-> result.xp_earned,
           badges    |-> result.badges ]

(* POST /user/stats: the request is validated, then update_user_stats runs *)
update_stats(uid, xp_earned, mode, now) ==
    /\ WithinBounds(uid, xp_earned)
    /\ IF ValidXp(xp_earned) /\ ValidMode(mode)
       THEN LET r == update_user_stats(store, db, uid, xp_earned, mode, now)
            IN  /\ store' = r.store
                /\ response' = StatsResponse(uid, r.result)
                /\ clock' = IF "error" \in DOMAIN r.result THEN clock ELSE now
       ELSE /\ store' = store
            /\ response' = [op |-> "update_stats", uid |-> uid, status |-> 422,
                             detail |-> "validation error"]
            /\ clock' = clock
    /\ UNCHANGED <<db, practice_sessions, wordVars, calls>>

(* POST /user/log-session: word, mode and score are not validated *)
log_session(uid, mode, score) ==
    \* the model's bound: at most MaxLogged logged sessions, of users with at
    \* most MaxLoggedSessions sessions
    /\ practice_sessions < MaxLogged
    /\ \A u \in UIDs :
           store[u].exists => TotalSessions(store[u].stats) <= MaxLoggedSessions
    /\ store' = update_best_score(store, db, uid, mode, score)
    /\ practice_sessions' = log_practice_session(practice_sessions, db)
    /\ response' = [op |-> "log_session", uid |-> uid, status |-> 200,
                     detail |-> "Session logged successfully"]
    /\ UNCHANGED <<clock, db, wordVars, calls>>

(* the readings datetime.now() can give next *)
Readings == {t \in Instants : t >= clock}

Next ==
    \/ \E u \in UIDs : sync_user(u)
    \/ \E u \in UIDs, xp \in XpInputs \cup XpRejected, m \in Modes \cup OtherModes,
          now \in Readings :
           update_stats(u, xp, m, now)
    \/ \E u \in UIDs, m \in Modes \cup OtherModes, sc \in ScoreInputs :
           log_session(u, m, sc)

Spec == Init /\ [][Next]_vars

----------------------------------------------------------------------------
(* update_user_stats called as a function of app/database.py, past the      *)
(* request schema: the mode is any string.                                  *)

call_update_user_stats(uid, xp_earned, mode, now) ==
    /\ WithinBounds(uid, xp_earned)
    /\ LET r == update_user_stats(store, db, uid, xp_earned, mode, now)
       IN  /\ store' = r.store
           /\ response' = [ op     |-> "update_user_stats",
                            uid    |-> uid,
                            mode   |-> mode,
                            result |-> r.result ]
           /\ clock' = IF "error" \in DOMAIN r.result THEN clock ELSE now
    /\ UNCHANGED <<db, practice_sessions, wordVars, calls>>

NextDirect ==
    \/ \E u \in UIDs : sync_user(u)
    \/ \E u \in UIDs, xp \in XpInputs, m \in Modes, now \in Readings :
           update_stats(u, xp, m, now)
    \/ \E u \in UIDs, xp \in XpInputs, m \in OtherModes, now \in Readings :
           call_update_user_stats(u, xp, m, now)

SpecDirect == Init /\ [][NextDirect]_vars

----------------------------------------------------------------------------
(* check_for_badges as a function: stats and current badges drawn from      *)
(* samples around every threshold of the rule table, then evaluated.        *)

SessionSamples == {0, 1, 4, 5, 9, 10, 99, 100}
XpSamples == {0, 9, 10, 99, 100, 499, 500, 1999, 2000, 4499, 4500}
StreakSamples == {0, 1, 2, 3, 6, 7, 29, 30}
BestSamples == {0, 99, 100, 150}

RuleIds == [i \in 1..Len(BadgeConditions(InitialStats)) |->
               BadgeConditions(InitialStats)[i].id]

StreakRuleIds == {"streak_3", "streak_week", "streak_month"}

(* stats a record can hold: level follows total_xp, a session earns at most
   100 XP, the streak is at most the number of sessions *)
SampleStats ==
    LET all == { [ total_xp |-> xp,
                   level |-> Level(xp),
                   streak |-> k,
                   last_practice_date |-> IF p + q = 0 THEN NoDate ELSE 0,
                   pronunciation_sessions |-> p,
                   spelling_sessions |-> q,
                   best_pronunciation_score |-> bp,
                   best_spelling_score |-> bs ] :
                 xp \in XpSamples, k \in StreakSamples,
                 p \in SessionSamples, q \in {0, 1},
                 bp \in BestSamples, bs \in {0, 100} }
    IN  { s \in all :
            /\ s.total_xp <= 100 * TotalSessions(s)
            /\ s.streak <= TotalSessions(s)
            /\ (s.streak = 0 <=> TotalSessions(s) = 0) }

(* the badges of the rules in ids, in table order, earned at tick 0 *)
BadgesOf(ids) ==
    LET conds == BadgeConditions(InitialStats)
        kept  == SelectSeq(conds, LAMBDA c : c.id \in ids)
    IN  [ i \in 1..Len(kept) |->
            [ id |-> kept[i].id, name |-> kept[i].name,
              description |-> kept[i].description, earned_at |-> 0 ] ]

(* current badge sets: none, any one, and every prefix of the table *)
SampleBadgeIds ==
    {{}} \cup {{RuleIds[i]} : i \in 1..Len(RuleIds)}
         \cup {{RuleIds[j] : j \in 1..i} : i \in 1..Len(RuleIds)}

(* a stored badge is one whose rule holds, or a streak badge of the past *)
Earnable(stats, ids) ==
    \A i \in 1..Len(RuleIds) :
        RuleIds[i] \in ids =>
            \/ BadgeConditions(stats)[i].condition
            \/ RuleIds[i] \in StreakRuleIds /\ TotalSessions(stats) >= 3

InitBadges ==
    /\ clock = 1
    /\ db = TRUE
    /\ practice_sessions = 0
    /\ response = [op |-> "start"]
    /\ self_words = read_words(NoFile)
    /\ words_by_difficulty = load_words(NoFile)
    /\ daily_cache = EmptyCache
    /\ served = {}
    /\ random_state = 0
    /\ calls = NoCalls
    /\ \E stats \in SampleStats, ids \in SampleBadgeIds :
           /\ Earnable(stats, ids)
           /\ store = [u \in UIDs |->
                          [exists |-> TRUE, stats |-> stats, badges |-> BadgesOf(ids)]]

evaluate_badges(uid) ==
    LET badges == check_for_badges(store[uid].stats, store[uid].badges, clock)
    IN  /\ store' = [store EXCEPT ![uid].badges = badges]
        /\ response' = [ op |-> "check_for_badges", uid |-> uid,
                         appended |-> Len(badges) - Len(store[uid].badges) ]
        /\ UNCHANGED <<clock, db, practice_sessions, wordVars, calls>>

NextBadges == \E u \in UIDs : evaluate_badges(u)

SpecBadges == InitBadges /\ [][NextBadges]_vars

----------------------------------------------------------------------------
(* The word service behind GET /word/daily.  The process has loaded a words  *)
(* file (or the sample words) and may be restarted.                          *)

InitWords ==
    /\ clock = 0
    /\ db = TRUE
    /\ store = [u \in UIDs |-> NoDoc]
    /\ practice_sessions = 0
    /\ response = [op |-> "start"]
    /\ \E f \in WordsFiles :
           /\ self_words = read_words(f)
           /\ words_by_difficulty = load_words(f)
    /\ daily_cache = EmptyCache
    /\ served = {}
    /\ random_state = 0
    /\ calls = NoCalls

(* what a call that read today and returned words adds to served *)
Serve(today, words, sampled) ==
    served \cup {[date |-> today, words |-> words, sampled |-> sampled]}

DailyResponse(caller, today, words, sampled) ==
    [ op |-> "get_daily_words", caller |-> caller, today |-> today,
      words |-> words, sampled |-> sampled ]

(* GET /word/daily on the event loop: get_daily_words has no await, so it runs
   from date.today() to its return with no other call in between *)
word_daily(c, now) ==
    LET today == DateOf(now)
        r     == get_daily_words(daily_cache, words_by_difficulty, today)
    IN  /\ daily_cache' = r.cache
        /\ served' = Serve(today, r.words, r.sampled)
        /\ response' = DailyResponse(c, today, r.words, r.sampled)
        /\ clock' = now
        /\ UNCHANGED <<db, store, practice_sessions, self_words, words_by_difficulty,
                     random_state, calls>>

(* the process starts again: a new WordService loads the same words file *)
restart ==
    /\ daily_cache # EmptyCache
    /\ daily_cache' = EmptyCache
    /\ calls' = NoCalls
    /\ response' = [op |-> "restart"]
    /\ UNCHANGED <<clock, db, store, practice_sessions, self_words, words_by_difficulty,
                   served, random_state>>

NextWords ==
    \/ \E c \in Callers, now \in Readings : word_daily(c, now)
    \/ restart

SpecWords == InitWords /\ [][NextWords]_vars

----------------------------------------------------------------------------
(* get_daily_words called from threads: a thread can be switched out between *)
(* two reads of self._daily_cache.  A caller's locals are today and, once    *)
(* computed, formatted_words; the sampling reads the pools only, so it is    *)
(* one step with the assignment that stores its result.                      *)

(* "today = date.today()" *)
read_today(c, now) ==
    /\ calls[c].pc = "idle"
    /\ calls' = [calls EXCEPT ![c] = [pc |-> "check_date", today |-> DateOf(now)]]
    /\ clock' = now
    /\ UNCHANGED <<db, store, practice_sessions, response, wordVars>>

(* "self._daily_cache["date"] == today" *)
check_date(c) ==
    /\ calls[c].pc = "check_date"
    /\ calls' = [calls EXCEPT ![c].pc =
                    IF daily_cache.date = calls[c].today
                    THEN "check_words" ELSE "sample"]
    /\ UNCHANGED <<clock, db, store, practice_sessions, response, wordVars>>

(* "and self._daily_cache["words"]" *)
check_words(c) ==
    /\ calls[c].pc = "check_words"
    /\ calls' = [calls EXCEPT ![c].pc =
                    IF daily_cache.words # << >> THEN "return_cached" ELSE "sample"]
    /\ UNCHANGED <<clock, db, store, practice_sessions, response, wordVars>>

(* "return self._daily_cache["words"]" *)
return_cached(c) ==
    /\ calls[c].pc = "return_cached"
    /\ response' = DailyResponse(c, calls[c].today, daily_cache.words, FALSE)
    /\ served' = Serve(calls[c].today, daily_cache.words, FALSE)
    /\ calls' = [calls EXCEPT ![c] = [pc |-> "idle"]]
    /\ UNCHANGED <<clock, db, store, practice_sessions, self_words, words_by_difficulty,
                   daily_cache, random_state>>

(* the sampling, "self._daily_cache = {...}" and "return formatted_words" *)
sample_and_store(c) ==
    /\ calls[c].pc = "sample"
    /\ LET formatted_words == SelectDailyWords(words_by_difficulty, calls[c].today)
       IN  /\ daily_cache' = [date |-> calls[c].today, words |-> formatted_words]
           /\ response' = DailyResponse(c, calls[c].today, formatted_words, TRUE)
           /\ served' = Serve(calls[c].today, formatted_words, TRUE)
    /\ calls' = [calls EXCEPT ![c] = [pc |-> "idle"]]
    /\ UNCHANGED <<clock, db, store, practice_sessions, self_words, words_by_difficulty,
                   random_state>>

NextWordThreads ==
    \/ \E c \in Callers, now \in Readings : read_today(c, now)
    \/ \E c \in Callers : check_date(c)
    \/ \E c \in Callers : check_words(c)
    \/ \E c \in Callers : return_cached(c)
    \/ \E c \in Callers : sample_and_store(c)

(* the threads of a process that found no words file *)
InitWordThreads ==
    /\ InitWords
    /\ words_by_difficulty = load_words(NoFile)

SpecWordThreads == InitWordThreads /\ [][NextWordThreads]_vars

----------------------------------------------------------------------------
(* update_user_stats run by two server processes on the same Firestore:      *)
(* doc_ref.get() and doc_ref.update() are two requests to the store, with no *)
(* transaction around them, so another call's requests can come in between.  *)

MaxRaceSessions == 2    \* sessions stored while calls overlap

(* "doc = doc_ref.get()" and the computation on the snapshot, up to the
   arguments of doc_ref.update *)
update_user_stats_read(c, uid, xp_earned, mode, now) ==
    /\ calls[c].pc = "idle"
    /\ store[uid].exists => TotalSessions(store[uid].stats) < MaxRaceSessions
    /\ LET r == update_user_stats(store, db, uid, xp_earned, mode, now)
       IN  IF "error" \in DOMAIN r.result
           THEN /\ response' = [op |-> "update_user_stats", caller |-> c,
                                uid |-> uid, result |-> r.result]
                /\ UNCHANGED <<clock, calls>>
           ELSE /\ calls' = [calls EXCEPT ![c] =
                                [ pc        |-> "update",
                                  uid       |-> uid,
                                  xp_earned |-> xp_earned,
                                  mode      |-> mode,
                                  doc       |-> r.store[uid],
                                  result    |-> r.result ]]
                /\ clock' = now
                /\ UNCHANGED response
    /\ UNCHANGED <<db, store, practice_sessions, wordVars>>

(* "doc_ref.update({stats, badges, updated_at})" and the return *)
update_user_stats_write(c) ==
    /\ calls[c].pc = "update"
    /\ store' = [store EXCEPT ![calls[c].uid] = calls[c].doc]
    /\ response' = [op |-> "update_user_stats", caller |-> c,
                    uid |-> calls[c].uid, result |-> calls[c].result]
    /\ calls' = [calls EXCEPT ![c] = [pc |-> "idle"]]
    /\ UNCHANGED <<clock, db, practice_sessions, wordVars>>

NextRace ==
    \/ \E u \in UIDs : sync_user(u)
    \/ \E c \in Callers, u \in UIDs, xp \in XpInputs, m \in Modes, now \in Readings :
           update_user_stats_read(c, u, xp, m, now)
    \/ \E c \in Callers : update_user_stats_write(c)

SpecRace == Init /\ [][NextRace]_vars

----------------------------------------------------------------------------
(* app/services/scoring_service.py.  A text is a sequence of characters. *)

MaxTextLen == 3         \* characters of an input text

(* a lower-case letter, an upper-case letter, whitespace, punctuation *)
Chars == {"a", "B", " ", "!"}

RECURSIVE TextsOfLen(_)
TextsOfLen(n) ==
    IF n = 0 THEN {<< >>}
    ELSE {Append(t, ch) : t \in TextsOfLen(n - 1), ch \in Chars}

(* the input texts: at most one character of a text is no letter *)
Texts ==
    {t \in UNION {TextsOfLen(n) : n \in 0..MaxTextLen} :
        Cardinality({i \in 1..Len(t) : t[i] \in {" ", "!"}}) <= 1}

(* str.lower() *)
lower(text) == [i \in 1..Len(text) |-> IF text[i] = "B" THEN "b" ELSE text[i]]

RECURSIVE lstrip(_)
lstrip(text) ==
    IF text # << >> /\ text[1] = " " THEN lstrip(Tail(text)) ELSE text

RECURSIVE rstrip(_)
rstrip(text) ==
    IF text # << >> /\ text[Len(text)] = " "
    THEN rstrip(SubSeq(text, 1, Len(text) - 1))
    ELSE text

(* str.strip() *)
strip(text) == rstrip(lstrip(text))

(* re.sub(r'[^\w\s]', '', text) *)
remove_punctuation(text) == SelectSeq(text, LAMBDA ch : ch # "!")

(* espeak on a cleaned text: "a" sounds "@", "b" sounds "b", a doubled "b"
   sounds once, and the words are separated by one blank *)
RECURSIVE phonemize(_)
phonemize(text) ==
    IF text = << >> THEN << >>
    ELSE IF Len(text) >= 2 /\ text[1] = text[2] /\ text[1] \in {"b", " "}
         THEN phonemize(Tail(text))
         ELSE <<IF text[1] = "a" THEN "@" ELSE text[1]>> \o phonemize(Tail(text))

(* ScoringService.text_to_phonemes; espeak: whether phonemize returns (TRUE)
   or raises (FALSE) *)
text_to_phonemes(text, espeak) ==
    IF text = << >> THEN << >>
    ELSE LET cleaned == remove_punctuation(strip(lower(text)))
         IN  IF espeak THEN strip(phonemize(cleaned)) ELSE cleaned

(* Levenshtein.distance *)
RECURSIVE levenshtein_distance(_, _)
levenshtein_distance(a, b) ==
    IF a = << >> THEN Len(b)
    ELSE IF b = << >> THEN Len(a)
    ELSE IF a[1] = b[1] THEN levenshtein_distance(Tail(a), Tail(b))
    ELSE 1 + Min(levenshtein_distance(Tail(a), b),
                 Min(levenshtein_distance(a, Tail(b)),
                     levenshtein_distance(Tail(a), Tail(b))))

(* the <<max_len, dist>> up to max_len 12 for which the double
   (1 - dist / max_len) * 100 lies just below the exact value, a whole number *)
FloatBelow == {<<5, 4>>, <<10, 8>>, <<10, 9>>}

(* a penalty per edit, not clamped *)
SimilarityScore_Unclamped(dist, max_len) == 100 - 40 * dist

(* "similarity = 1 - (dist / max_len)
    score = max(0, min(100, int(similarity * 100)))": int() truncates *)
SimilarityScore(dist, max_len) ==
    LET truncated == (100 * (max_len - dist)) \div max_len
                        - (IF <<max_len, dist>> \in FloatBelow THEN 1 ELSE 0)
    IN  Max(0, Min(100, truncated))

(* the longer text is taken to be the target *)
MaxLen_OfTarget(target, other) == Max(Len(target), 1)

(* "max_len = max(len(target_word), len(user_text), 1)" *)
MaxLen(target, other) == Max(Len(target), Max(Len(other), 1))

(* "target_clean in recognized_clean" *)
IsSubstring(a, b) ==
    \E i \in 0..(Len(b) - Len(a)) : SubSeq(b, i + 1, i + Len(a)) = a

(* ScoringService._get_pronunciation_feedback *)
pronunciation_feedback(score, recognized, target) ==
    LET recognized_clean == strip(lower(recognized))
        target_clean     == strip(lower(target))
    IN  IF recognized_clean = target_clean
        THEN <<"Perfect pronunciation! Great job!">>
        ELSE IF IsSubstring(target_clean, recognized_clean)
        THEN <<"Good! You said the word correctly. Score based on clarity.">>
        ELSE IF score >= 90 THEN <<"Excellent pronunciation! Almost perfect!">>
        ELSE IF score >= 75
        THEN <<"Great pronunciation! Minor differences detected.">>
        ELSE IF score >= 60 THEN <<"Good attempt! Some sounds need work.">>
        ELSE IF score >= 40
        THEN <<"Keep practicing! Focus on individual sounds.">>
        ELSE IF score >= 20
        THEN <<"The word '", target, "' sounds quite different. Try again slowly.">>
        ELSE IF recognized = << >>
        THEN <<"Could not detect speech. Please try again.">>
        ELSE <<"We heard '", recognized, "'. The target word is '", target,
               "'. Try again!">>

(* the band of 90 and more left out *)
spelling_feedback_NoTopBand(score, user_text, target) ==
    IF score >= 75 THEN <<"Good try! A few letters are off.">>
    ELSE IF score >= 50 THEN <<"Keep going! You got some letters right.">>
    ELSE <<"The correct spelling is '", target, "'. Try again!">>

(* ScoringService._get_spelling_feedback *)
spelling_feedback(score, user_text, target) ==
    IF score >= 90 THEN <<"Almost perfect! Just a small typo.">>
    ELSE IF score >= 75 THEN <<"Good try! A few letters are off.">>
    ELSE IF score >= 50 THEN <<"Keep going! You got some letters right.">>
    ELSE <<"The correct spelling is '", target, "'. Try again!">>

(* the test of the target's phonemes left out *)
NoPhonemes_Never(target_phonemes) == FALSE

(* "if not target_phonemes" *)
NoPhonemes(target_phonemes) == target_phonemes = << >>

(* ScoringService.calculate_pronunciation_score *)
calculate_pronunciation_score(recognized_text, target_word, espeak) ==
    LET target_phonemes     == text_to_phonemes(target_word, espeak)
        recognized_phonemes == text_to_phonemes(recognized_text, espeak)
        dist    == levenshtein_distance(target_phonemes, recognized_phonemes)
        max_len == MaxLen(target_phonemes, recognized_phonemes)
        score   == SimilarityScore(dist, max_len)
    IN  IF NoPhonemes(target_phonemes)
        THEN [ score               |-> 0,
               target_phonemes     |-> target_phonemes,
               recognized_phonemes |-> recognized_phonemes,
               feedback            |-> <<"Could not process target word">> ]
        ELSE [ score               |-> score,
               target_phonemes     |-> target_phonemes,
               recognized_phonemes |-> recognized_phonemes,
               feedback            |-> pronunciation_feedback(
                                           score, recognized_text, target_word) ]

(* the exact-match return left out *)
SpellingMatch_Never(user_text, target_word) == FALSE

(* "if user_text == target_word" on the normalized texts *)
SpellingMatch(user_text, target_word) == user_text = target_word

(* ScoringService.calculate_spelling_score *)
calculate_spelling_score(user_text_in, target_word_in) ==
    LET user_text   == strip(lower(user_text_in))
        target_word == strip(lower(target_word_in))
        dist    == levenshtein_distance(target_word, user_text)
        max_len == MaxLen(target_word, user_text)
        score   == SimilarityScore(dist, max_len)
    IN  IF SpellingMatch(user_text, target_word)
        THEN [score |-> 100, feedback |-> <<"Perfect! You spelled it correctly!">>]
        ELSE [score |-> score,
              feedback |-> spelling_feedback(score, user_text, target_word)]

----------------------------------------------------------------------------
(* The scoring functions applied to a pair of texts *)

(* longer attempts and their targets: one letter of ten left out, one letter
   of four wrong, a target that ends in a blank and a punctuation mark *)
ExamplePairs ==
    { << <<"a", "m", "e", "l", "o", "r", "a", "t", "e">>,
         <<"a", "m", "e", "l", "i", "o", "r", "a", "t", "e">> >>,
      << <<"c", "a", "r", "t">>, <<"c", "a", "r", "e">> >>,
      << <<"a">>, <<"a", " ", "!">> >> }

TextPairs == (Texts \X Texts) \cup ExamplePairs

ScoringRequests ==
    {[pc |-> "calculate_spelling_score", user_text |-> p[1], target_word |-> p[2]] :
        p \in TextPairs}
    \cup
    {[pc |-> "calculate_pronunciation_score", recognized_text |-> p[1],
      target_word |-> p[2], espeak |-> e] : p \in TextPairs, e \in BOOLEAN}

InitScoring ==
    /\ clock = 0
    /\ db = TRUE
    /\ store = [u \in UIDs |-> NoDoc]
    /\ practice_sessions = 0
    /\ response = [op |-> "start"]
    /\ self_words = read_words(NoFile)
    /\ words_by_difficulty = load_words(NoFile)
    /\ daily_cache = EmptyCache
    /\ served = {}
    /\ random_state = 0
    /\ \E request \in ScoringRequests : calls = [NoCalls EXCEPT !["c1"] = request]

score_spelling(c) ==
    /\ calls[c].pc = "calculate_spelling_score"
    /\ response' = [ op          |-> "calculate_spelling_score",
                     user_text   |-> calls[c].user_text,
                     target_word |-> calls[c].target_word,
                     result      |-> calculate_spelling_score(
                                         calls[c].user_text, calls[c].target_word) ]
    /\ calls' = [calls EXCEPT ![c] = [pc |-> "idle"]]
    /\ UNCHANGED <<clock, db, store, practice_sessions, wordVars>>

score_pronunciation(c) ==
    /\ calls[c].pc = "calculate_pronunciation_score"
    /\ response' = [ op              |-> "calculate_pronunciation_score",
                     recognized_text |-> calls[c].recognized_text,
                     target_word     |-> calls[c].target_word,
                     espeak          |-> calls[c].espeak,
                     result          |-> calculate_pronunciation_score(
                                             calls[c].recognized_text,
                                             calls[c].target_word,
                                             calls[c].espeak) ]
    /\ calls' = [calls EXCEPT ![c] = [pc |-> "idle"]]
    /\ UNCHANGED <<clock, db, store, practice_sessions, wordVars>>

NextScoring ==
    \/ \E c \in Callers : score_spelling(c)
    \/ \E c \in Callers : score_pronunciation(c)

SpecScoring == InitScoring /\ [][NextScoring]_vars

----------------------------------------------------------------------------
(* update_best_score, request by request to the store, next to the calls of  *)
(* update_user_stats                                                         *)

(* "user_doc = user_ref.get()" and the comparison with the snapshot's best *)
update_best_score_read(c, uid, mode, score) ==
    /\ calls[c].pc = "idle"
    /\ db
    /\ store[uid].exists
    /\ score > Get(store[uid].stats, BestField(mode), 0)
    /\ calls' = [calls EXCEPT ![c] =
                    [ pc    |-> "update_best",
                      uid   |-> uid,
                      mode  |-> mode,
                      stats |-> BestStats(store[uid].stats, mode, score) ]]
    /\ UNCHANGED <<clock, db, store, practice_sessions, response, wordVars>>

(* "user_ref.update({"stats": stats})" *)
update_best_score_write(c) ==
    /\ calls[c].pc = "update_best"
    /\ store' = [store EXCEPT ![calls[c].uid].stats = calls[c].stats]
    /\ response' = [op |-> "update_best_score", caller |-> c, uid |-> calls[c].uid]
    /\ calls' = [calls EXCEPT ![c] = [pc |-> "idle"]]
    /\ UNCHANGED <<clock, db, practice_sessions, wordVars>>

(* one caller runs update_user_stats, the other update_best_score, all within
   one tick of the clock *)
NextRaceBest ==
    \/ \E u \in UIDs : sync_user(u)
    \/ \E u \in UIDs, xp \in XpInputs, m \in Modes :
           update_user_stats_read("c1", u, xp, m, clock)
    \/ update_user_stats_write("c1")
    \/ \E u \in UIDs, m \in Modes, sc \in ScoreInputs :
           update_best_score_read("c2", u, m, sc)
    \/ update_best_score_write("c2")

SpecRaceBest == Init /\ [][NextRaceBest]_vars

----------------------------------------------------------------------------
(* The user routes under a clock that can be set back: a reading of          *)
(* datetime.now() can precede an earlier one.                                *)

MaxSkewSessions == 4    \* sessions stored while the clock can be set back

NextSkew ==
    \/ \E u \in UIDs : sync_user(u)
    \/ \E u \in UIDs, xp \in XpInputs, m \in Modes, now \in Instants :
           /\ store[u].exists => TotalSessions(store[u].stats) < MaxSkewSessions
           /\ update_stats(u, xp, m, now)

SpecSkew == Init /\ [][NextSkew]_vars

----------------------------------------------------------------------------
(* A client of POST /user/stats that keeps the calendar dates on which its   *)
(* requests were answered with 200.                                          *)

InitPractise ==
    /\ clock = 0
    /\ db \in BOOLEAN
    /\ store = [u \in UIDs |-> NoDoc]
    /\ practice_sessions = 0
    /\ response = [op |-> "start"]
    /\ self_words = read_words(NoFile)
    /\ words_by_difficulty = load_words(NoFile)
    /\ daily_cache = EmptyCache
    /\ served = {}
    /\ random_state = 0
    /\ calls = [c \in Callers |-> [pc |-> "idle", dates |-> {}]]

practise(c, uid, xp_earned, mode, now) ==
    /\ WithinBounds(uid, xp_earned)
    /\ LET r == update_user_stats(store, db, uid, xp_earned, mode, now)
           ok == "error" \notin DOMAIN r.result
       IN  /\ store' = r.store
           /\ response' = StatsResponse(uid, r.result)
           /\ clock' = IF ok THEN now ELSE clock
           /\ calls' = IF ok
                       THEN [calls EXCEPT ![c].dates = @ \cup {DateOf(now)}]
                       ELSE calls
    /\ UNCHANGED <<db, practice_sessions, wordVars>>

NextPractise ==
    \/ \E u \in UIDs : sync_user(u)
    \/ \E u \in UIDs, xp \in XpInputs, m \in Modes, now \in Readings :
           practise("c1", u, xp, m, now)

SpecPractise == InitPractise /\ [][NextPractise]_vars

----------------------------------------------------------------------------
(* GET /word/daily and GET /word/{mode}/{difficulty} served by one process:  *)
(* get_random_word draws from the generator of module random, which the      *)
(* operating system seeded.                                                  *)

MaxWordDate == 1        \* the last calendar date on which this process serves

DifficultyInputs == {"easy", "Medium", "Hard", "Expert"}

(* a words file that holds an empty list *)
EmptyFile == [exists |-> TRUE, words |-> << >>]

(* the words files of this specification: none, an empty one, and those in
   which each pool is empty or full *)
RandomWordsFiles ==
    {NoFile, EmptyFile} \cup {FileWith(q) : q \in [Difficulties -> {0, MaxPool}]}

InitRandomWords ==
    /\ clock = 0
    /\ db = TRUE
    /\ store = [u \in UIDs |-> NoDoc]
    /\ practice_sessions = 0
    /\ response = [op |-> "start"]
    /\ \E f \in RandomWordsFiles :
           /\ self_words = read_words(f)
           /\ words_by_difficulty = load_words(f)
    /\ daily_cache = EmptyCache
    /\ served = {}
    /\ random_state \in 0..(RngModulus - 1)
    /\ calls = NoCalls

(* GET /word/{mode}/{difficulty} *)
get_word(mode, difficulty) ==
    /\ IF mode \notin {"pronunciation", "spelling"}
       THEN /\ response' = [op |-> "get_word", status |-> 400,
                            detail |-> "Mode must be 'pronunciation' or 'spelling'"]
            /\ random_state' = random_state
       ELSE IF lower_difficulty(difficulty) \notin {"easy", "medium", "hard"}
       THEN /\ response' = [op |-> "get_word", status |-> 400,
                            detail |-> "Difficulty must be 'easy', 'medium', or 'hard'"]
            /\ random_state' = random_state
       ELSE LET r == get_random_word(self_words, words_by_difficulty, difficulty,
                                     random_state)
            IN  /\ response' = IF ~r.word.found
                               THEN [op |-> "get_word", status |-> 404,
                                     detail |-> "No words found for difficulty"]
                               ELSE [op |-> "get_word", status |-> 200,
                                     word |-> r.word.data]
                /\ random_state' = r.rng
    /\ UNCHANGED <<clock, db, store, practice_sessions, self_words,
                   words_by_difficulty, daily_cache, served, calls>>

NextRandomWords ==
    \/ \E now \in Readings : DateOf(now) <= MaxWordDate /\ word_daily("c1", now)
    \/ \E m \in Modes \cup OtherModes, d \in DifficultyInputs : get_word(m, d)
    \/ restart

SpecRandomWords == InitRandomWords /\ [][NextRandomWords]_vars

----------------------------------------------------------------------------
(* Properties *)

Stored(u) == store[u].exists

StatsOf(u) == store[u].stats

BadgeIds(badges) == {badges[i].id : i \in 1..Len(badges)}

(* a step in which POST /user/stats succeeded for u *)
SessionStep(u) ==
    /\ response'.op = "update_stats"
    /\ response'.uid = u
    /\ response'.status = 200

(* C1: a successful update_user_stats sets the streak from the difference d of
   the calendar dates of now and last_practice_date: 1 when there is no prior
   date, unchanged when d = 0, streak + 1 when d = 1, 1 when d > 1; and
   last_practice_date becomes now. *)
C1_StreakFollowsDateDifference ==
    [][ \A u \in UIDs :
          SessionStep(u) =>
             LET old == store[u].stats
                 new == store'[u].stats
                 now == clock'
                 d   == DateOf(now) - DateOf(old.last_practice_date)
             IN  /\ new.last_practice_date = now
                 /\ old.last_practice_date = NoDate => new.streak = 1
                 /\ old.last_practice_date # NoDate =>
                       /\ d = 0 => new.streak = old.streak
                       /\ d = 1 => new.streak = old.streak + 1
                       /\ d > 1 => new.streak = 1 ]_vars

(* a streak grown over three consecutive dates, the second less than a day
   after the first *)
C1_Witness ==
    \E u \in UIDs :
        /\ Stored(u)
        /\ StatsOf(u).streak = 3
        /\ response.op = "update_stats" /\ response.status = 200

(* C2: every stored record has level = floor(total_xp / 500) + 1, and the level
   of a stored record never decreases. *)
C2_LevelFollowsXp ==
    /\ [] (\A u \in UIDs :
              Stored(u) =>
                 /\ 500 * (StatsOf(u).level - 1) <= StatsOf(u).total_xp
                 /\ StatsOf(u).total_xp < 500 * StatsOf(u).level)
    /\ [][ \A u \in UIDs :
              Stored(u) =>
                 /\ store'[u].exists
                 /\ store'[u].stats.level >= store[u].stats.level ]_vars

C2_Witness ==
    \E u \in UIDs :
        Stored(u) /\ StatsOf(u).total_xp = 500 /\ StatsOf(u).level = 2

(* C3: total_xp is 0 in a new record, grows by exactly xp_earned in every
   successful update_user_stats, the calls of one calendar date included, and
   is changed by nothing else: it is the sum of the xp_earned of the
   successful calls. *)
C3_XpIsSumOfEarned ==
    [][ \A u \in UIDs :
          store'[u].exists =>
             LET before == IF Stored(u) THEN store[u].stats.total_xp ELSE 0
                 earned == IF SessionStep(u) THEN response'.xp_earned ELSE 0
             IN  store'[u].stats.total_xp = before + earned ]_vars

(* two sessions on one calendar date, both counted *)
C3_Witness ==
    \E u \in UIDs :
        /\ Stored(u)
        /\ StatsOf(u).total_xp = 200
        /\ StatsOf(u).streak = 1
        /\ TotalSessions(StatsOf(u)) = 2
        /\ DateOf(StatsOf(u).last_practice_date) = 0

(* C4: a successful update_user_stats adds 1 to the session counter of its mode
   and leaves the other counter and both best scores unchanged. *)
C4_OneCounterPerSession ==
    [][ \A u \in UIDs, xp \in XpInputs, m \in Modes :
          (SessionStep(u) /\ update_stats(u, xp, m, clock')) =>
             LET old   == store[u].stats
                 new   == store'[u].stats
                 other == IF m = "pronunciation" THEN "spelling" ELSE "pronunciation"
                 count(md) == md \o "_sessions"
             IN  /\ new[count(m)] = old[count(m)] + 1
                 /\ new[count(other)] = old[count(other)]
                 /\ new.best_pronunciation_score = old.best_pronunciation_score
                 /\ new.best_spelling_score = old.best_spelling_score ]_vars

C4_Witness ==
    \E u \in UIDs :
        /\ Stored(u)
        /\ StatsOf(u).pronunciation_sessions = 2
        /\ StatsOf(u).spelling_sessions = 1
        /\ response.op = "update_stats" /\ response.status = 200

(* C5: update_user_stats called with a mode other than "pronunciation" and
   "spelling" fails with an error and leaves the stored record unchanged. *)
C5_ThirdModeFails ==
    [][ \A u \in UIDs :
          (response'.op = "update_user_stats" /\ response'.uid = u
             /\ ~ValidMode(response'.mode)) =>
             /\ "error" \in DOMAIN response'.result
             /\ store' = store ]_vars

(* C6: update_best_score stores the maximum of the stored best of the mode
   (0 when there is none) and the score; the best never decreases, and the
   same call made again changes nothing. *)
C6_BestIsRunningMaximum ==
    [][ \A u \in UIDs, m \in Modes \cup OtherModes, sc \in ScoreInputs :
          (log_session(u, m, sc) /\ db /\ Stored(u)) =>
             LET old == Get(store[u].stats, BestField(m), 0)
                 new == Get(store'[u].stats, BestField(m), 0)
             IN  /\ new = Max(old, sc)
                 /\ new >= old
                 /\ update_best_score(store', db, u, m, sc) = store' ]_vars

(* a second score for a mode that already holds 150 *)
C6_Witness ==
    \E u \in UIDs :
        /\ Stored(u)
        /\ StatsOf(u).best_pronunciation_score = 150
        /\ "best_listening_score" \notin DOMAIN StatsOf(u)
        /\ StatsOf(u).best_spelling_score = 0
        /\ practice_sessions = 2

(* C7: the best scores of every stored record are integers in 0..100. *)
C7_BestScoresInRange ==
    \A u \in UIDs :
        Stored(u) =>
           /\ StatsOf(u).best_pronunciation_score \in 0..100
           /\ StatsOf(u).best_spelling_score \in 0..100

(* C8: a stored badge stays stored, with the same earned_at, in every later
   badge list of the user. *)
C8_BadgesAppendOnly ==
    [][ \A u \in UIDs :
          Stored(u) =>
             /\ store'[u].exists
             /\ \A i \in 1..Len(store[u].badges) :
                   \E j \in 1..Len(store'[u].badges) :
                      /\ store'[u].badges[j].id = store[u].badges[i].id
                      /\ store'[u].badges[j].earned_at = store[u].badges[i].earned_at ]_vars

(* the streak badge kept after the streak was reset to 1 *)
C8_Witness ==
    \E u \in UIDs :
        /\ Stored(u)
        /\ "streak_3" \in BadgeIds(store[u].badges)
        /\ StatsOf(u).streak = 1

(* C9: once the badge rules have been evaluated, evaluating them again with
   the same stats against the resulting badges appends nothing and returns
   the same list. *)
C9_SecondEvaluationAppendsNothing ==
    \A u \in UIDs :
        response.op = "check_for_badges" =>
           LET first  == store[u].badges
               second == check_for_badges(store[u].stats, first, clock)
           IN  /\ second = first
               /\ Len(second) - Len(first) = 0

(* an evaluation that appended badges *)
C9_Witness ==
    \E u \in UIDs :
        /\ response.op = "check_for_badges"
        /\ response.appended > 0
        /\ Len(store[u].badges) > response.appended

(* the rule table as the claim C10 states it *)
ClaimedRules(stats) ==
    LET sessions == stats.pronunciation_sessions + stats.spelling_sessions
        Rule(id, holds) == [id |-> id, holds |-> holds]
    IN
    << Rule("first_session", sessions >= 1),
       Rule("getting_started", stats.total_xp >= 10),
       Rule("first_steps", stats.total_xp >= 100),
       Rule("xp_500", stats.total_xp >= 500),
       Rule("five_sessions", sessions >= 5),
       Rule("ten_sessions", sessions >= 10),
       Rule("century", sessions >= 100),
       Rule("streak_3", stats.streak >= 3),
       Rule("streak_week", stats.streak >= 7),
       Rule("streak_month", stats.streak >= 30),
       Rule("level_2", stats.level >= 2),
       Rule("level_5", stats.level >= 5),
       Rule("level_10", stats.level >= 10),
       Rule("pronunciation_first", stats.pronunciation_sessions >= 1),
       Rule("spelling_first", stats.spelling_sessions >= 1),
       Rule("perfect_pronunciation", stats.best_pronunciation_score = 100),
       Rule("perfect_spelling", stats.best_spelling_score = 100) >>

(* check_for_badges(stats, current) is current followed by the claimed rules
   that hold and are absent from current, in table order *)
AppendsClaimedRules(stats, current, now) ==
    LET out     == check_for_badges(stats, current, now)
        claimed == SelectSeq(ClaimedRules(stats),
                             LAMBDA r : r.holds /\ r.id \notin BadgeIds(current))
    IN  /\ Len(out) = Len(current) + Len(claimed)
        /\ SubSeq(out, 1, Len(current)) = current
        /\ \A k \in 1..Len(claimed) :
              /\ Len(current) + k <= Len(out)
              /\ out[Len(current) + k].id = claimed[k].id
              /\ out[Len(current) + k].earned_at = now

(* C10: check_for_badges returns the current badges followed, in table order,
   by exactly the rules absent from them whose predicate holds, the predicate
   of a perfect-score badge being a best score equal to 100. *)
C10_AppendsExactlyClaimedRules ==
    \A u \in UIDs :
        Stored(u) => AppendsClaimedRules(store[u].stats, store[u].badges, clock)

(* C10 on the records whose best scores are scores (0..100) *)
C10_OnScoresInRange ==
    \A u \in UIDs :
        (Stored(u) /\ C7_BestScoresInRange) =>
            AppendsClaimedRules(store[u].stats, store[u].badges, clock)

----------------------------------------------------------------------------
(* C11: in every stored user record no two badges of the badge list have
   the same id, whatever sequence of sessions follows create_user. *)
C11_BadgeIdsUnique ==
    \A u \in UIDs :
        Stored(u) =>
            \A i, j \in 1..Len(store[u].badges) :
                store[u].badges[i].id = store[u].badges[j].id => i = j

(* a second session has re-evaluated the rules over a list that already held
   badges, and appended to it *)
C11_Witness ==
    \E u \in UIDs :
        /\ Stored(u)
        /\ TotalSessions(StatsOf(u)) >= 5
        /\ "first_session" \in BadgeIds(store[u].badges)
        /\ "five_sessions" \in BadgeIds(store[u].badges)

----------------------------------------------------------------------------
(* Properties of the daily words *)

PoolSize(d) == Len(words_by_difficulty[d])

PoolWords(d) == {words_by_difficulty[d][i].word : i \in 1..PoolSize(d)}

DailyCalled == response.op = "get_daily_words"

(* the entries of a returned list that come from the pool of difficulty d *)
EntriesFrom(words, d) == {i \in 1..Len(words) : words[i].word \in PoolWords(d)}

(* C12: for a fixed date and fixed pools every call of get_daily_words
   returns the same ordered list, whether it is served from the cache,
   sampled again, or sampled by a process started afresh. *)
C12_SameDateSameList ==
    \A p, q \in served : p.date = q.date => p.words = q.words

(* a date already served from the cache is sampled again: the process was
   started afresh in between *)
C12_Witness ==
    /\ DailyCalled
    /\ response.sampled
    /\ response.words # << >>
    /\ \E p \in served : p.date = response.today /\ ~p.sampled
    /\ \E p \in served : p.date # response.today

(* C13: with at least 2 easy, 2 medium and 1 hard word the list has exactly 5
   entries ordered easy, easy, medium, medium, hard; the two easy entries are
   different items of the easy pool and the two medium entries different
   items of the medium pool. *)
C13_TwoTwoOne ==
    (DailyCalled /\ PoolSize("easy") >= 2 /\ PoolSize("medium") >= 2
                 /\ PoolSize("hard") >= 1) =>
        LET w == response.words
        IN  /\ Len(w) = 5
            /\ {w[1].word, w[2].word} \subseteq PoolWords("easy")
            /\ {w[3].word, w[4].word} \subseteq PoolWords("medium")
            /\ w[5].word \in PoolWords("hard")
            /\ w[1].word # w[2].word
            /\ w[3].word # w[4].word

(* a sampled list whose first draw was not the first item of a pool of three *)
C13_Witness ==
    /\ DailyCalled
    /\ response.sampled
    /\ PoolSize("easy") >= 3 /\ PoolSize("medium") >= 3 /\ PoolSize("hard") >= 2
    /\ Len(response.words) = 5
    /\ response.words[1].word # words_by_difficulty["easy"][1].word

(* C14: a pool below its quota gives all it has and the call does not fail:
   at most 5 entries, one entry from a pool of one, none from an empty pool,
   and the full quota from every other pool. *)
C14_ShortPoolsGiveAll ==
    DailyCalled =>
        LET w == response.words
        IN  /\ Len(w) <= 5
            /\ Cardinality(EntriesFrom(w, "easy")) = Min(2, PoolSize("easy"))
            /\ Cardinality(EntriesFrom(w, "medium")) = Min(2, PoolSize("medium"))
            /\ Cardinality(EntriesFrom(w, "hard")) = Min(1, PoolSize("hard"))
            /\ Len(w) = Min(2, PoolSize("easy")) + Min(2, PoolSize("medium"))
                            + Min(1, PoolSize("hard"))

(* one easy word, no hard word, a full medium pool: three entries *)
C14_Witness ==
    /\ DailyCalled
    /\ PoolSize("easy") = 1 /\ PoolSize("medium") >= 2 /\ PoolSize("hard") = 0
    /\ Len(response.words) = 3
    /\ response.words[1].word = words_by_difficulty["easy"][1].word

(* C15: once a call has computed the selection for date D, a later call made
   while today is D returns the cached value without sampling, for all pool
   contents; the first call on another date samples and replaces the cache
   with that date and its selection. *)
C15_CachedForTheDate ==
    [][\A c \in Callers, now \in Instants :
          (now >= clock /\ word_daily(c, now)) =>
              IF daily_cache.date = DateOf(now)
              THEN /\ ~response'.sampled
                   /\ response'.words = daily_cache.words
                   /\ daily_cache' = daily_cache
              ELSE /\ response'.sampled
                   /\ daily_cache' = [date |-> DateOf(now), words |-> response'.words]
      ]_vars

(* the same, for the pools whose selection is not empty *)
C15_WhenSelectionNotEmpty ==
    [][\A c \in Callers, now \in Instants :
          (now >= clock /\ word_daily(c, now)
             /\ \E d \in Difficulties : PoolSize(d) > 0) =>
              IF daily_cache.date = DateOf(now)
              THEN /\ ~response'.sampled
                   /\ response'.words = daily_cache.words
                   /\ daily_cache' = daily_cache
              ELSE /\ response'.sampled
                   /\ daily_cache' = [date |-> DateOf(now), words |-> response'.words]
      ]_vars

(* C16: under any interleaving of get_daily_words callers across a change of
   date, the cache's date and words belong to the same date and each caller
   returns the complete selection of the date it read as today. *)
C16_CallersSeeOneDate ==
    /\ daily_cache.date # NoDate =>
           daily_cache.words = SelectDailyWords(words_by_difficulty, daily_cache.date)
    /\ DailyCalled =>
           response.words = SelectDailyWords(words_by_difficulty, response.today)

(* the part of C16 that holds: the cache is replaced in one assignment *)
C16_CacheIsOneSnapshot ==
    daily_cache.date # NoDate =>
        daily_cache.words = SelectDailyWords(words_by_difficulty, daily_cache.date)

----------------------------------------------------------------------------
(* C17: concurrent updates of one user are serialized, so that no update is
   lost: whatever the interleaving of the read and write steps of two
   update_user_stats calls, each completed call adds its xp_earned to the
   stored total_xp and its session to the stored counters. *)
C17_NoLostUpdate ==
    [][\A c \in Callers :
          update_user_stats_write(c) =>
              LET u == calls[c].uid
              IN  /\ store'[u].stats.total_xp =
                         store[u].stats.total_xp + calls[c].xp_earned
                  /\ TotalSessions(store'[u].stats) =
                         TotalSessions(store[u].stats) + 1
      ]_vars

----------------------------------------------------------------------------
(* Properties of the scores *)

SpellingScored == response.op = "calculate_spelling_score"

PronunciationScored == response.op = "calculate_pronunciation_score"

(* C18: for all input texts the score of calculate_spelling_score and of
   calculate_pronunciation_score is an integer from 0 to 100. *)
C18_ScoreInRange ==
    (SpellingScored \/ PronunciationScored) =>
        response.result.score \in 0..100

(* a pronunciation three edits away from a target of three phonemes *)
C18_Witness ==
    /\ PronunciationScored
    /\ Len(response.result.target_phonemes) = 3
    /\ levenshtein_distance(response.result.target_phonemes,
                            response.result.recognized_phonemes) = 3
    /\ response.result.score = 0

(* C19: the score is symmetric in its two texts: the spelling score of (a, b)
   is that of (b, a), and the pronunciation score of target a and recognized
   text b is that of target b and recognized text a, also when a phoneme
   string is empty. *)
C19_ScoreSymmetric ==
    /\ SpellingScored =>
           response.result.score =
               calculate_spelling_score(response.target_word,
                                        response.user_text).score
    /\ PronunciationScored =>
           response.result.score =
               calculate_pronunciation_score(response.target_word,
                                             response.recognized_text,
                                             response.espeak).score

(* the target has no phonemes and the recognized text has some *)
C19_Witness ==
    /\ PronunciationScored
    /\ response.target_word # << >>
    /\ response.result.target_phonemes = << >>
    /\ response.result.recognized_phonemes # << >>
    /\ response.result.score = 0

(* C20: calculate_spelling_score(a, a) is 100 with the perfect-spelling
   feedback for every text a, the empty text included, and so is the score of
   two texts that are equal after normalization: the distance is not used. *)
C20_EqualTextsScore100 ==
    (SpellingScored
       /\ strip(lower(response.user_text)) = strip(lower(response.target_word))) =>
        response.result =
            [score |-> 100, feedback |-> <<"Perfect! You spelled it correctly!">>]

(* two different texts, equal once lower-cased and trimmed *)
C20_Witness ==
    /\ SpellingScored
    /\ response.user_text # response.target_word
    /\ Len(response.user_text) # Len(response.target_word)
    /\ strip(lower(response.user_text)) = strip(lower(response.target_word))
    /\ response.result.score = 100

----------------------------------------------------------------------------
(* the Normalizer as specified: lower-cased, trimmed, punctuation removed *)
normalize(text) == strip(remove_punctuation(lower(text)))

(* clamp(round(similarity * 100), 0, 100), halves rounded up *)
RoundedScore(dist, max_len) ==
    Max(0, Min(100, (200 * (max_len - dist) + max_len) \div (2 * max_len)))

(* C21: for inputs that are not an exact match the score is
   clamp(round(similarity * 100), 0, 100), similarity being
   1 - distance / max(len(a), len(b), 1), in the spelling and in the
   pronunciation path. *)
C21_ScoreIsRounded ==
    /\ (SpellingScored
          /\ strip(lower(response.user_text)) # strip(lower(response.target_word))) =>
           LET a == strip(lower(response.target_word))
               b == strip(lower(response.user_text))
           IN  response.result.score =
                   RoundedScore(levenshtein_distance(a, b), MaxLen(a, b))
    /\ (PronunciationScored /\ response.result.target_phonemes # << >>) =>
           LET a == response.result.target_phonemes
               b == response.result.recognized_phonemes
           IN  response.result.score =
                   RoundedScore(levenshtein_distance(a, b), MaxLen(a, b))

(* what the code computes instead: the same ratio, truncated *)
C21_ScoreIsTruncated ==
    /\ (SpellingScored
          /\ strip(lower(response.user_text)) # strip(lower(response.target_word))) =>
           LET a == strip(lower(response.target_word))
               b == strip(lower(response.user_text))
           IN  response.result.score =
                   (100 * (MaxLen(a, b) - levenshtein_distance(a, b))) \div MaxLen(a, b)
    /\ (PronunciationScored /\ response.result.target_phonemes # << >>) =>
           LET a == response.result.target_phonemes
               b == response.result.recognized_phonemes
           IN  response.result.score =
                   (100 * (MaxLen(a, b) - levenshtein_distance(a, b))) \div MaxLen(a, b)

(* C22: in calculate_pronunciation_score, whenever the target has no phonemes
   the result is score 0 with the feedback 'Could not process target word',
   whatever the recognized text, and no ratio is computed. *)
C22_NoTargetPhonemes ==
    (PronunciationScored
       /\ text_to_phonemes(response.target_word, response.espeak) = << >>) =>
        /\ response.result.score = 0
        /\ response.result.feedback = <<"Could not process target word">>

(* a target of punctuation only, against a recognized letter *)
C22_Witness ==
    /\ PronunciationScored
    /\ response.target_word = <<"!">>
    /\ response.recognized_text = <<"a">>
    /\ response.result.feedback = <<"Could not process target word">>

(* C23: in calculate_pronunciation_score, whenever the recognized text equals
   the target after normalization the score is 100, also when both are
   empty. *)
C23_EqualTextsScore100 ==
    (PronunciationScored
       /\ normalize(response.recognized_text) = normalize(response.target_word)) =>
        response.result.score = 100

(* the same for the targets espeak gives phonemes for *)
C23_WhenTargetHasPhonemes ==
    (PronunciationScored
       /\ response.espeak
       /\ normalize(response.recognized_text) = normalize(response.target_word)
       /\ response.result.target_phonemes # << >>) =>
        response.result.score = 100

PerfectMessage == <<"Perfect pronunciation! Great job!">>

ClarityMessage == <<"Good! You said the word correctly. Score based on clarity.">>

(* C24: pronunciation feedback is chosen in strict precedence: the perfect
   message if attempt and target are equal after normalization; otherwise the
   clarity message if the normalized target is a substring of the normalized
   attempt, whatever the score; only otherwise a message of the score band.
   Spelling feedback never is the clarity message. *)
C24_FeedbackPrecedence ==
    /\ PronunciationScored =>
           LET attempt == normalize(response.recognized_text)
               target  == normalize(response.target_word)
               given   == response.result.feedback
           IN  IF attempt = target THEN given = PerfectMessage
               ELSE IF IsSubstring(target, attempt) THEN given = ClarityMessage
               ELSE given \notin {PerfectMessage, ClarityMessage}
    /\ SpellingScored => response.result.feedback # ClarityMessage

(* the precedence the code follows: on the target's phonemes first, then on
   the texts lower-cased and trimmed, punctuation kept *)
C24_PrecedenceOnTrimmedTexts ==
    /\ (PronunciationScored /\ response.result.target_phonemes # << >>) =>
           LET attempt == strip(lower(response.recognized_text))
               target  == strip(lower(response.target_word))
               given   == response.result.feedback
           IN  IF attempt = target THEN given = PerfectMessage
               ELSE IF IsSubstring(target, attempt) THEN given = ClarityMessage
               ELSE given \notin {PerfectMessage, ClarityMessage}
    /\ SpellingScored => response.result.feedback # ClarityMessage

(* an override of the score band: equal texts, or the target within the
   attempt *)
Override(attempt, target) == attempt = target \/ IsSubstring(target, attempt)

(* the six pronunciation bands *)
PronunciationBand(score, recognized, target) ==
    CASE score >= 90 -> <<"Excellent pronunciation! Almost perfect!">>
      [] score >= 75 /\ score < 90 ->
             <<"Great pronunciation! Minor differences detected.">>
      [] score >= 60 /\ score < 75 -> <<"Good attempt! Some sounds need work.">>
      [] score >= 40 /\ score < 60 ->
             <<"Keep practicing! Focus on individual sounds.">>
      [] score >= 20 /\ score < 40 ->
             <<"The word '", target, "' sounds quite different. Try again slowly.">>
      [] score < 20 /\ recognized = << >> ->
             <<"Could not detect speech. Please try again.">>
      [] score < 20 /\ recognized # << >> ->
             <<"We heard '", recognized, "'. The target word is '", target,
               "'. Try again!">>

(* the four spelling bands *)
SpellingBand(score, target) ==
    CASE score >= 90 -> <<"Almost perfect! Just a small typo.">>
      [] score >= 75 /\ score < 90 -> <<"Good try! A few letters are off.">>
      [] score >= 50 /\ score < 75 -> <<"Keep going! You got some letters right.">>
      [] score < 50 -> <<"The correct spelling is '", target, "'. Try again!">>

(* C25: when no override applies the feedback is that of the score band:
   six bands for pronunciation, the lowest giving 'Could not detect speech'
   exactly when the recognized text is empty; four bands for spelling, a
   non-matching attempt of score >= 90 getting 'Almost perfect'. *)
C25_FeedbackByBand ==
    /\ (PronunciationScored
          /\ response.result.target_phonemes # << >>
          /\ ~Override(normalize(response.recognized_text),
                       normalize(response.target_word))
          /\ ~Override(strip(lower(response.recognized_text)),
                       strip(lower(response.target_word)))) =>
           response.result.feedback =
               PronunciationBand(response.result.score, response.recognized_text,
                                 response.target_word)
    /\ (SpellingScored
          /\ strip(lower(response.user_text)) # strip(lower(response.target_word))) =>
           response.result.feedback =
               SpellingBand(response.result.score,
                            strip(lower(response.target_word)))

(* ten letters, one left out: 90, and no exact match *)
C25_Witness ==
    /\ SpellingScored
    /\ Len(response.target_word) = 10
    /\ Len(response.user_text) = 9
    /\ response.result.score = 90
    /\ response.result.feedback = <<"Almost perfect! Just a small typo.">>

(* C26: a failure of the phoneme conversion is recovered locally:
   text_to_phonemes returns the normalized raw text (lower-cased, trimmed,
   punctuation removed) and calculate_pronunciation_score completes with a
   score and a feedback. *)
C26_FallbackIsNormalizedText ==
    (PronunciationScored /\ ~response.espeak) =>
        /\ response.result.target_phonemes = normalize(response.target_word)
        /\ response.result.recognized_phonemes = normalize(response.recognized_text)
        /\ response.result.score \in 0..100
        /\ response.result.feedback # << >>

(* the part of C26 that holds: the call completes, on the text lower-cased,
   trimmed and then stripped of punctuation *)
C26_FailureIsRecovered ==
    (PronunciationScored /\ ~response.espeak) =>
        /\ response.result.target_phonemes =
               remove_punctuation(strip(lower(response.target_word)))
        /\ response.result.recognized_phonemes =
               remove_punctuation(strip(lower(response.recognized_text)))
        /\ response.result.score \in 0..100
        /\ response.result.feedback # << >>

----------------------------------------------------------------------------
(* C27: when the store is unavailable, every operation that should persist
   user data (stats update, best-score update and session log, user sync)
   surfaces a degraded-service or error outcome; none reports success while
   nothing was stored. *)
C27_UnavailableIsSurfaced ==
    (~db /\ response.op \in {"sync_user", "update_stats", "log_session"}) =>
        response.status # 200

(* the part of C27 that holds: the stats update answers with an error *)
C27_StatsUpdateSurfaced ==
    (~db /\ response.op = "update_stats") => response.status \in {404, 422}

(* C28: the badge set stays append-only under concurrency: whatever the
   interleaving of the read and write steps of two update_user_stats calls
   for one user, a stored badge id is in every later stored badge list. *)
C28_BadgesAppendOnlyUnderRace ==
    [][\A u \in UIDs :
          Stored(u) =>
              BadgeIds(store[u].badges) \subseteq BadgeIds(store'[u].badges)
      ]_vars

(* C29: best scores never decrease under concurrency: whatever the
   interleaving of an update_best_score call and an update_user_stats call
   for one user, the stored best_<mode>_score does not decrease, and no XP or
   session counter written by update_user_stats is undone by
   update_best_score writing back its stats snapshot. *)
C29_BestAndXpKeptUnderRace ==
    [][\A u \in UIDs :
          Stored(u) =>
              /\ store'[u].stats.best_pronunciation_score >=
                     store[u].stats.best_pronunciation_score
              /\ store'[u].stats.best_spelling_score >=
                     store[u].stats.best_spelling_score
              /\ store'[u].stats.total_xp >= store[u].stats.total_xp
              /\ store'[u].stats.pronunciation_sessions >=
                     store[u].stats.pronunciation_sessions
              /\ store'[u].stats.spelling_sessions >=
                     store[u].stats.spelling_sessions
      ]_vars

----------------------------------------------------------------------------
(* C30: when the date of now precedes the date of last_practice_date,
   update_user_stats resets the streak to 1, still adds the XP and counts the
   session, and overwrites last_practice_date with the earlier now. *)
C30_EarlierDateResetsStreak ==
    [][\A u \in UIDs, xp \in XpInputs, m \in Modes :
          (/\ SessionStep(u)
           /\ StatsOf(u).last_practice_date # NoDate
           /\ DateOf(clock') < DateOf(StatsOf(u).last_practice_date)
           /\ update_stats(u, xp, m, clock')) =>
              /\ store'[u].stats.streak = 1
              /\ store'[u].stats.total_xp = store[u].stats.total_xp + xp
              /\ store'[u].stats = [CountSession(store[u].stats, m) EXCEPT
                                       !.total_xp = store[u].stats.total_xp + xp,
                                       !.level = Level(store[u].stats.total_xp + xp),
                                       !.streak = 1,
                                       !.last_practice_date = clock']
      ]_vars

(* a streak of 1 dated before the day on which a streak badge was earned *)
C30_Witness ==
    \E u \in UIDs :
        /\ Stored(u)
        /\ StatsOf(u).streak = 1
        /\ TotalSessions(StatsOf(u)) >= 4
        /\ \E i \in 1..Len(store[u].badges) :
               /\ store[u].badges[i].id = "streak_3"
               /\ DateOf(store[u].badges[i].earned_at) >
                      DateOf(StatsOf(u).last_practice_date)

----------------------------------------------------------------------------
(* C31: in every stored user record reached by operations that do not
   overlap, last_practice_date is set if and only if streak >= 1; the streak
   is 0 exactly for a user who has never completed update_user_stats, and no
   operation returns it to 0. *)
C31_StreakZeroOnlyBeforePractice ==
    /\ [](\A u \in UIDs :
             Stored(u) =>
                 /\ (StatsOf(u).last_practice_date # NoDate) <=> (StatsOf(u).streak >= 1)
                 /\ (StatsOf(u).streak = 0) <=> (TotalSessions(StatsOf(u)) = 0))
    /\ [][\A u \in UIDs :
             (Stored(u) /\ StatsOf(u).streak >= 1) =>
                 (store'[u].exists /\ store'[u].stats.streak >= 1)]_vars

(* a streak broken by a gap of more than a day *)
C31_Witness ==
    \E u \in UIDs :
        /\ Stored(u)
        /\ StatsOf(u).streak = 1
        /\ TotalSessions(StatsOf(u)) >= 2
        /\ StatsOf(u).last_practice_date >= 5
        /\ \E i \in 1..Len(store[u].badges) : store[u].badges[i].earned_at = 0

----------------------------------------------------------------------------
(* C32: with a clock that never goes backwards, after any sequence of
   update_user_stats calls the streak is at most the number of distinct
   calendar dates on which a call succeeded, and it grows by at most 1 per
   calendar date: a step raises it by 1 at most, and only on a date on which
   no call had succeeded before. *)
C32_StreakWithinPractisedDates ==
    /\ [](\A u \in UIDs :
             Stored(u) => StatsOf(u).streak <= Cardinality(calls["c1"].dates))
    /\ [][\A u \in UIDs :
             (Stored(u) /\ store'[u].stats.streak > store[u].stats.streak) =>
                 /\ store'[u].stats.streak = store[u].stats.streak + 1
                 /\ DateOf(clock') \notin calls["c1"].dates
                 /\ calls'["c1"].dates = calls["c1"].dates \cup {DateOf(clock')}
       ]_vars

(* three consecutive dates give a streak of 3; a gap later leaves the streak
   below the number of dates *)
C32_Witness ==
    \E u \in UIDs :
        /\ Stored(u)
        /\ Cardinality(calls["c1"].dates) = 4
        /\ StatsOf(u).streak = 1
        /\ "streak_3" \in BadgeIds(store[u].badges)

----------------------------------------------------------------------------
(* C33: update_best_score changes at most the field best_<mode>_score: it
   leaves total_xp, level, streak, last_practice_date, both session counters
   and the badge list unchanged.  So a perfect-score badge is not stored when
   the best score reaches 100; the next update_user_stats stores it. *)
C33_BestScoreOnly ==
    /\ [][\A u \in UIDs :
             (Stored(u) /\ response'.op = "log_session" /\ response'.uid = u) =>
                 /\ store'[u].badges = store[u].badges
                 /\ \E m \in Modes \cup OtherModes :
                        \A f \in (DOMAIN store[u].stats) \cup (DOMAIN store'[u].stats) :
                            f # BestField(m) =>
                                /\ f \in DOMAIN store[u].stats
                                /\ f \in DOMAIN store'[u].stats
                                /\ store'[u].stats[f] = store[u].stats[f]
       ]_vars
    /\ [][\A u \in UIDs, m \in Modes :
             (SessionStep(u) /\ Stored(u) /\ StatsOf(u)[BestField(m)] >= 100) =>
                 ("perfect_" \o m) \in BadgeIds(store'[u].badges)
       ]_vars

(* a best score of 100 stored by log-session, and no perfect-score badge *)
C33_Witness ==
    \E u \in UIDs :
        /\ Stored(u)
        /\ response.op = "log_session"
        /\ StatsOf(u).best_pronunciation_score = 100
        /\ TotalSessions(StatsOf(u)) >= 1
        /\ "perfect_pronunciation" \notin BadgeIds(store[u].badges)

----------------------------------------------------------------------------
(* C34: the stored stats record always has exactly the eight UserStats
   fields: a log-session call whose mode is neither "pronunciation" nor
   "spelling" adds no best_<mode>_score field and leaves the stored stats
   unchanged. *)
C34_EightStatsFields ==
    \A u \in UIDs :
        Stored(u) => DOMAIN StatsOf(u) = DOMAIN InitialStats

(* the part of C34 that holds: the eight fields are always there, and a score
   that is not above 0 adds none *)
C34_EightFieldsKept ==
    \A u \in UIDs :
        Stored(u) =>
            /\ DOMAIN InitialStats \subseteq DOMAIN StatsOf(u)
            /\ \A f \in DOMAIN StatsOf(u) \ DOMAIN InitialStats : StatsOf(u)[f] > 0

----------------------------------------------------------------------------
(* C35: update_user_stats and update_best_score for a user id that has no
   stored record write nothing and create no record; update_user_stats
   returns the error "User not found", answered with 404. *)
C35_MissingUserNotCreated ==
    /\ [][\A u \in UIDs, xp \in XpInputs, m \in Modes, now \in Readings :
             (db /\ ~Stored(u) /\ update_stats(u, xp, m, now)) =>
                 /\ response'.status = 404
                 /\ response'.detail = "User not found"
                 /\ store' = store
       ]_vars
    /\ [][\A u \in UIDs :
             (db /\ ~Stored(u) /\ response'.op = "log_session" /\ response'.uid = u) =>
                 store' = store
       ]_vars

(* the stats update of a user who never synced was answered with 404 *)
C35_Witness ==
    \E u \in UIDs :
        /\ db
        /\ ~Stored(u)
        /\ response.op = "update_stats"
        /\ response.uid = u
        /\ response.status = 404
        /\ response.detail = "User not found"

----------------------------------------------------------------------------
(* C36: syncing a user who already has a stored record leaves that record
   unchanged: a repeated sync never resets stats or badges, however many
   syncs come between other completed operations. *)
C36_SyncKeepsStoredRecord ==
    [][\A u \in UIDs :
          (Stored(u) /\ response'.op = "sync_user" /\ response'.uid = u) =>
              /\ store' = store
              /\ response'.status = 200
              /\ response'.user_id = u
      ]_vars

(* a sync answered after the user's sessions and best score were stored *)
C36_Witness ==
    \E u \in UIDs :
        /\ Stored(u)
        /\ response.op = "sync_user"
        /\ response.uid = u
        /\ TotalSessions(StatsOf(u)) >= 1
        /\ StatsOf(u).best_spelling_score > 0
        /\ store[u].badges # << >>

----------------------------------------------------------------------------
(* C37: the daily selection for a date does not depend on any other activity
   of the process: calls to get_random_word, which draw from the shared
   generator, before or between get_daily_words calls change neither the
   daily cache nor the list selected for that date, and get_daily_words does
   not change what the pools contain (nor does it draw from the shared
   generator). *)
C37_DailySelectionIndependent ==
    /\ [][response'.op = "get_word" =>
              /\ daily_cache' = daily_cache
              /\ served' = served
              /\ words_by_difficulty' = words_by_difficulty
              /\ self_words' = self_words]_vars
    /\ [](\A e1, e2 \in served : e1.date = e2.date => e1.words = e2.words)
    /\ [](\A e \in served : e.words = SelectDailyWords(words_by_difficulty, e.date))
    /\ [][response'.op = "get_daily_words" =>
              /\ words_by_difficulty' = words_by_difficulty
              /\ self_words' = self_words
              /\ random_state' = random_state]_vars

(* a random word was served after the list of the date had been sampled and
   then served from the cache, and the cache still holds that list *)
C37_Witness ==
    /\ response.op = "get_word"
    /\ response.status = 200
    /\ daily_cache.words # << >>
    /\ \E e1, e2 \in served :
           /\ e1.date = daily_cache.date
           /\ e1.words = daily_cache.words
           /\ e1.sampled
           /\ e2.date = daily_cache.date
           /\ ~e2.sampled
    /\ \E e \in served : e.date # daily_cache.date

=============================================================================
